---- MODULE Spec2Model ----
(***************************************************************************)
(* The callback-driven assembly engine of readstat-rs (readstat/src/cb.rs): *)
(* handle_metadata, handle_variable and handle_value, driven by the        *)
(* external parser that delivers one metadata event, var_count variable    *)
(* declarations and row_count x var_count value events in row-major order. *)
(***************************************************************************)
EXTENDS Integers, Sequences, FiniteSets, TLC

(***************************************************************************)
(* Bounds of the model and program constants.                              *)
(***************************************************************************)
\* largest number of rows of a modelled file
MaxRows == 5
\* largest number of values (rows x variables) of a modelled file
MaxCells == 6
\* largest number of variables of a modelled file
MaxVars == 2
\* cb.rs:30 sets ROWS = 100000; the model scales the chunk size down.  Any
\* value >= 2 keeps the boundary arithmetic of the flush guard.
ROWS == 2
\* cb.rs:29
DIGITS == 14

(***************************************************************************)
(* Types delivered by the parser and their Arrow counterparts.             *)
(***************************************************************************)
\* ReadStatVarType, as matched in handle_variable
VarTypes == {"String", "StringRef", "Int8", "Int16", "Int32", "Float", "Double", "Unknown"}

\* the variable names the modelled files draw from (uniqueness is not guaranteed)
Names == {"a", "b"}

\* raw display formats of the modelled files
Formats == {"BEST12", "YYMMDD10", "DATETIME22", "TIME"}

\* formats::match_var_format: raw format string -> format class
match_var_format(f) ==
    CASE f = "YYMMDD10"   -> "Date"
      [] f = "DATETIME22" -> "DateTime"
      [] f = "TIME"       -> "Time"
      [] OTHER            -> "None"

\* readstat_variable_get_type_class: the class the parser reports for a type
TypeClassOf(t) == IF t \in {"String", "StringRef"} THEN "String" ELSE "Numeric"

\* handle_variable, `let var_dt = match &var_type`
var_dt(var_type) ==
    CASE var_type \in {"String", "StringRef", "Unknown"} -> "Utf8"
      [] var_type \in {"Int8", "Int16"}                  -> "Int16"
      [] var_type = "Int32"                              -> "Int32"
      [] var_type = "Float"                              -> "Float32"
      [] var_type = "Double"                             -> "Float64"

\* handle_variable, `let array: Box<dyn ArrayBuilder> = match &var_type`
BuilderFor(var_type) ==
    CASE var_type \in {"String", "StringRef", "Unknown"} -> "StringBuilder"
      [] var_type = "Int8"                               -> "Int8Builder"
      [] var_type = "Int16"                              -> "Int16Builder"
      [] var_type = "Int32"                              -> "Int32Builder"
      [] var_type = "Float"                              -> "Float32Builder"
      [] var_type = "Double"                             -> "Float64Builder"

\* the builder a value of type value_type is downcast to in handle_value;
\* "None" stands for the `_ => unreachable!()` arm
DowncastFor(value_type) ==
    CASE value_type \in {"String", "StringRef"} -> "StringBuilder"
      [] value_type = "Int8"                    -> "Int8Builder"
      [] value_type = "Int16"                   -> "Int16Builder"
      [] value_type = "Int32"                   -> "Int32Builder"
      [] value_type = "Float"                   -> "Float32Builder"
      [] value_type = "Double"                  -> "Float64Builder"
      [] OTHER                                  -> "None"

\* the element type of the array a builder finishes into
ArrayTypeOf(builder) ==
    CASE builder = "StringBuilder"  -> "Utf8"
      [] builder = "Int8Builder"    -> "Int8"
      [] builder = "Int16Builder"   -> "Int16"
      [] builder = "Int32Builder"   -> "Int32"
      [] builder = "Float32Builder" -> "Float32"
      [] builder = "Float64Builder" -> "Float64"

(***************************************************************************)
(* Float and double values.  A value is its shortest decimal expansion:    *)
(* the digits before and after the point and a decimal exponent, 0 for a   *)
(* value written without exponent.  to_string renders it,                  *)
(* format!("{1:.0$}", DIGITS, text) keeps at most DIGITS characters of the *)
(* text (a precision applied to a string truncates it), parse reads the    *)
(* text back.                                                              *)
(***************************************************************************)

\* Result: Ok(v) or Err
Ok(v) == [ok |-> TRUE, v |-> v]
Err == [ok |-> FALSE]

Dec(int, frac, exp) == [int |-> int, frac |-> frac, exp |-> exp]

DigitChars == <<"0", "1", "2", "3", "4", "5", "6", "7", "8", "9">>

IsDigit(c) == \E d \in 1..10 : DigitChars[d] = c

DigitOf(c) == (CHOOSE d \in 1..10 : DigitChars[d] = c) - 1

\* the decimal digits of a natural number
RECURSIVE NatText(_)
NatText(n) ==
    IF n < 10 THEN <<DigitChars[n + 1]>> ELSE NatText(n \div 10) \o <<DigitChars[(n % 10) + 1]>>

\* the natural number written by a sequence of digits
RECURSIVE NatOf(_)
NatOf(ds) ==
    IF ds = <<>> THEN 0 ELSE 10 * NatOf(SubSeq(ds, 1, Len(ds) - 1)) + DigitOf(ds[Len(ds)])

\* lexical::to_string: d.ddd, followed by e<exponent> for a value written
\* in exponent notation
to_string(x) ==
    x.int \o <<".">> \o (IF x.frac = <<>> THEN <<"0">> ELSE x.frac) \o
    (IF x.exp = 0 THEN <<>>
     ELSE <<"e">> \o (IF x.exp < 0 THEN <<"-">> ELSE <<>>) \o
          NatText(IF x.exp < 0 THEN -x.exp ELSE x.exp))

\* format!("{1:.0$}", DIGITS, text): precision on a string truncates it
Truncate(text) == SubSeq(text, 1, IF Len(text) < DIGITS THEN Len(text) ELSE DIGITS)

RECURSIVE StripTrailingZeros(_)
StripTrailingZeros(s) ==
    IF s # <<>> /\ s[Len(s)] = "0" THEN StripTrailingZeros(SubSeq(s, 1, Len(s) - 1)) ELSE s

RECURSIVE StripLeadingZeros(_)
StripLeadingZeros(s) ==
    IF Len(s) > 1 /\ s[1] = "0" THEN StripLeadingZeros(Tail(s)) ELSE s

\* position of the character c in a text, Len + 1 when it is not there
IndexOf(text, c) ==
    IF \E i \in 1..Len(text) : text[i] = c
    THEN CHOOSE i \in 1..Len(text) : text[i] = c /\ \A j \in 1..(i - 1) : text[j] # c
    ELSE Len(text) + 1

\* lexical::parse: digits, an optional point and digits, an optional exponent;
\* an exponent mark that no digit follows is an error
parse(text) ==
    LET e        == IndexOf(text, "e")
        mantissa == SubSeq(text, 1, e - 1)
        p        == IndexOf(mantissa, ".")
        int      == SubSeq(mantissa, 1, p - 1)
        frac     == SubSeq(mantissa, p + 1, Len(mantissa))
        expo     == SubSeq(text, e + 1, Len(text))
        negative == expo # <<>> /\ expo[1] = "-"
        edigits  == IF negative THEN Tail(expo) ELSE expo
    IN  IF \/ int \o frac = <<>>
           \/ \E i \in 1..Len(int \o frac \o edigits) : ~IsDigit((int \o frac \o edigits)[i])
           \/ e <= Len(text) /\ edigits = <<>>
        THEN Err
        ELSE Ok(Dec(StripLeadingZeros(IF int = <<>> THEN <<"0">> ELSE int),
                    StripTrailingZeros(frac),
                    IF negative THEN -NatOf(edigits) ELSE NatOf(edigits)))

\* handle_value, FLOAT and DOUBLE arms: parse(format!(.., to_string(value)))
Normalize(x) == parse(Truncate(to_string(x)))

(***************************************************************************)
(* The values the modelled files deliver, per value type.                  *)
(***************************************************************************)
\* 1234.0
D1234 == Dec(<<"1", "2", "3", "4">>, <<>>, 0)
\* 0.30000000000000004 (= 0.1 + 0.2)
DSum == Dec(<<"0">>, <<"3", "0", "0", "0", "0", "0", "0", "0", "0", "0", "0", "0", "0", "0", "0", "0", "4">>, 0)
\* 1.2345678901234567e100
DBig == Dec(<<"1">>, <<"2", "3", "4", "5", "6", "7", "8", "9", "0", "1", "2", "3", "4", "5", "6", "7">>, 100)
\* 1.23456789012e-7
DCut == Dec(<<"1">>, <<"2", "3", "4", "5", "6", "7", "8", "9", "0", "1", "2">>, -7)
\* 1.5
F15 == Dec(<<"1">>, <<"5">>, 0)

ValuesOf(value_type) ==
    CASE value_type \in {"String", "StringRef"} -> {"x"}
      [] value_type \in {"Int8", "Int16", "Int32"} -> {7}
      [] value_type = "Float"  -> {F15}
      [] value_type = "Double" -> {D1234, DSum, DBig, DCut}
      [] OTHER -> {0}

\* an entry of a column: a value or a null
Null == [null |-> TRUE]
Val(v) == [null |-> FALSE, v |-> v]

(***************************************************************************)
(* State.                                                                  *)
(***************************************************************************)
VARIABLES
    \* ReadStatData (the session `d`)
    reader,         \* d.reader: "stream" or "mem"
    row_count, var_count, table_name, file_label, file_encoding, version,
    is64bit, creation_time, modified_time, compression, endianness,
    vars,           \* d.vars: map (index, name) -> variable metadata
    schema,         \* d.schema: sequence of fields
    cols,           \* d.cols: one builder per declared variable
    batch,          \* d.batch
    \* the external parser
    pc,             \* "metadata", "variables", "values", "done", "panicked", "aborted"
    file,           \* the file being parsed, as the parser reports it
    sent_vars,      \* the variables declared so far: [name, var_type, var_format]
    cursor,         \* the next value event: [obs, var]
    \* observation
    sunk,           \* the batches handed to d.write(), in order
    write_failed,   \* some d.write() has returned an error
    replay,         \* the declarations the parser is going to deliver again
    delivered,      \* per variable, the entries delivered by value events
    last            \* the event handled last

metadata_vars == <<row_count, var_count, table_name, file_label, file_encoding,
                   version, is64bit, creation_time, modified_time, compression,
                   endianness>>

vars_all == <<reader, row_count, var_count, table_name, file_label, file_encoding,
              version, is64bit, creation_time, modified_time, compression,
              endianness, vars, schema, cols, batch, pc, file, sent_vars, cursor,
              sunk, write_failed, replay, delivered, last>>

\* a null pointer handed over by the parser for an absent string
NullPtr == "<null>"

\* a handler that takes the string behind the pointer without the null test
from_ptr(ptr) == ptr

\* `if ptr == std::ptr::null() { String::new() } else { CStr::from_ptr(ptr)...to_owned() }`
StringOrEmpty(ptr) == IF ptr = NullPtr THEN "" ELSE ptr

\* NaiveDateTime::from_timestamp(t, 0).format("%Y-%m-%d %H:%M:%S").to_string()
FormatTimestamp(t) ==
    CASE t = 1641670848 -> "2022-01-08 19:40:48"
      [] t = 1627250522 -> "2021-07-25 22:02:02"
      [] OTHER          -> "1970-01-01 00:00:00"

\* FromPrimitive::from_i32 for ReadStatCompress, None when out of range
CompressOf(raw) ==
    CASE raw = 0 -> "None" [] raw = 1 -> "Rows" [] raw = 2 -> "Binary" [] OTHER -> "None"

\* FromPrimitive::from_i32 for ReadStatEndian, None when out of range
EndianOf(raw) ==
    CASE raw = 0 -> "None" [] raw = 1 -> "Little" [] raw = 2 -> "Big" [] OTHER -> "None"

\* the optional strings of the modelled files: (table name, file label,
\* encoding); the file label is absent
MetaStrings == {<<"ALL_TYPES", NullPtr, "UTF-8">>}

\* a file as the parser reports it: its shape, its metadata and the types
\* and raw display formats its variables draw from.  The parser delivers
\* every value with the type its variable was declared with, unless the file
\* is marked mistyped.
File(r, v, m, tys, fmts) ==
    [rows |-> r, vars |-> v, table_name |-> m[1], file_label |-> m[2],
     file_encoding |-> m[3], version |-> 9, is64bit |-> 1,
     creation_time |-> 1641670848, modified_time |-> 1641670848,
     compression |-> 0, endianness |-> 1, types |-> tys, formats |-> fmts,
     mistyped |-> FALSE,
     \* readstat_get_row_count: the number of rows, negative when the source
     \* does not know it
     row_count |-> r,
     \* how many times the parser delivers the metadata and the declarations
     passes |-> 1]

\* the shapes (rows, variables) of the files of Spec
Shapes == {sh \in (0..MaxRows) \X (1..MaxVars) : sh[1] * sh[2] <= MaxCells}

\* the files of Spec: plainly formatted variables of the types the parser
\* knows, any shape
Files ==
    {File(sh[1], sh[2], m, VarTypes \ {"Unknown"}, {"BEST12"}) :
        sh \in Shapes, m \in MetaStrings}

\* the files of SpecDecl: variables of every type and display format, at most
\* one value
DeclShapes == {sh \in (0..1) \X (1..MaxVars) : sh[1] * sh[2] <= 1}

DeclFiles ==
    {File(sh[1], sh[2], m, VarTypes, Formats) : sh \in DeclShapes, m \in MetaStrings}

\* the files of SpecChunks: any shape, variables of an integer type and of
\* the double type
ChunkFiles ==
    {File(sh[1], sh[2], m, {"Int32", "Double"}, {"BEST12"}) :
        sh \in Shapes, m \in MetaStrings}

\* the optional strings of the files of SpecMeta: each of them present or absent
OptionalStrings ==
    {<<t, l, e>> : t \in {"ALL_TYPES", NullPtr}, l \in {"all types", NullPtr},
                  e \in {"UTF-8", NullPtr}}

\* the files of SpecMeta: every combination of optional strings, at most one
\* value
MetaFiles ==
    {File(sh[1], sh[2], m, {"String", "Double"}, {"BEST12"}) :
        sh \in DeclShapes, m \in OptionalStrings}

\* the files of SpecTyped: values delivered with any type, at most two values
TypedShapes == {sh \in (1..2) \X (1..MaxVars) : sh[1] * sh[2] <= 2}

TypedFiles ==
    {[File(sh[1], sh[2], m, VarTypes \ {"Unknown"}, {"BEST12"}) EXCEPT !.mistyped = TRUE] :
        sh \in TypedShapes, m \in MetaStrings}

\* the files of SpecUnknown: the source does not know its number of rows and
\* reports a negative one
UnknownFiles ==
    {[File(sh[1], sh[2], m, {"Int32", "Double"}, {"BEST12"}) EXCEPT !.row_count = -1] :
        sh \in Shapes, m \in MetaStrings}

\* the files of SpecTwice: the metadata and the declarations are delivered
\* twice, at most one value
TwiceFiles ==
    {[File(sh[1], sh[2], m, VarTypes, {"BEST12"}) EXCEPT !.passes = 2] :
        sh \in DeclShapes, m \in MetaStrings}

\* RecordBatch::new_empty over the empty schema
EmptyBatch == [schema |-> <<>>, columns |-> <<>>]

\* ReadStatData::new followed by set_reader, and a parser about to read a file
\* of the family `files`
InitWith(files) ==
    /\ reader \in {"stream", "mem"}
    /\ row_count = 0
    /\ var_count = 0
    /\ table_name = ""
    /\ file_label = ""
    /\ file_encoding = ""
    /\ version = 0
    /\ is64bit = 0
    /\ creation_time = ""
    /\ modified_time = ""
    /\ compression = "None"
    /\ endianness = "None"
    /\ vars = <<>>
    /\ schema = <<>>
    /\ cols = <<>>
    /\ batch = EmptyBatch
    /\ pc = "metadata"
    /\ file \in files
    /\ sent_vars = <<>>
    /\ cursor = [obs |-> 0, var |-> 0]
    /\ sunk = <<>>
    /\ write_failed = FALSE
    /\ replay = <<>>
    /\ delivered = <<>>
    /\ last = [kind |-> "none"]

Init == InitWith(Files)

InitDecl == InitWith(DeclFiles)

InitChunks == InitWith(ChunkFiles)

InitMeta == InitWith(MetaFiles)

InitTyped == InitWith(TypedFiles)

InitUnknown == InitWith(UnknownFiles)

InitTwice == InitWith(TwiceFiles)

(***************************************************************************)
(* handle_metadata                                                         *)
(***************************************************************************)
\* a handler that leaves d.cols as it finds it
cols_kept(vc) == cols

\* `d.cols = Vec::with_capacity(vc as usize)`: a new, empty vector
with_capacity(vc) == <<>>

handle_metadata ==
    /\ pc = "metadata"
    /\ cols' = with_capacity(file.vars)
    /\ row_count' = file.row_count
    /\ var_count' = file.vars
    /\ table_name' = StringOrEmpty(file.table_name)
    /\ file_label' = StringOrEmpty(file.file_label)
    /\ file_encoding' = StringOrEmpty(file.file_encoding)
    /\ version' = file.version
    /\ is64bit' = file.is64bit
    /\ creation_time' = FormatTimestamp(file.creation_time)
    /\ modified_time' = FormatTimestamp(file.modified_time)
    /\ compression' = CompressOf(file.compression)
    /\ endianness' = EndianOf(file.endianness)
    /\ pc' = "variables"
    /\ last' = [kind |-> "metadata", ret |-> "OK"]
    /\ UNCHANGED <<reader, vars, schema, batch, file, sent_vars, cursor, sunk,
                   write_failed, replay, delivered>>

(***************************************************************************)
(* handle_variable                                                         *)
(***************************************************************************)
\* BTreeMap::insert
MapInsert(m, k, v) == [x \in (DOMAIN m) \cup {k} |-> IF x = k THEN v ELSE m[x]]

\* Field::new(&var_name, var_dt, true)
Field(name, dt) == [name |-> name, data_type |-> dt, nullable |-> TRUE]


\* Schema::try_merge(vec![schema, Schema::new(vec![field])]): a field whose name
\* is already in the schema is merged into that field (an error when the types
\* differ), any other field is appended
try_merge(sch, f) ==
    IF \E i \in 1..Len(sch) : sch[i].name = f.name
    THEN IF \E i \in 1..Len(sch) : sch[i].name = f.name /\ sch[i].data_type # f.data_type
         THEN Err
         ELSE Ok([i \in 1..Len(sch) |->
                    IF sch[i].name = f.name
                    THEN [sch[i] EXCEPT !.nullable = sch[i].nullable \/ f.nullable]
                    ELSE sch[i]])
    ELSE Ok(Append(sch, f))

\* a fresh builder of handle_variable
NewBuilder(var_type) == [builder |-> BuilderFor(var_type), items |-> <<>>]

\* a registry keyed by the name alone
KeyedByName(index, var_name) == <<0, var_name>>

\* ReadStatVarIndexAndName::new(index, var_name.clone()), the key of d.vars
ReadStatVarIndexAndName(index, var_name) == <<index, var_name>>

\* what handle_variable never assigns
variable_frame == UNCHANGED <<reader, metadata_vars, batch, file, cursor, sunk, write_failed>>

\* the declarations the parser may deliver next: any variable of the file in
\* the first pass, the variables of the first pass in their order afterwards
Declarations ==
    IF replay # <<>> THEN {Head(replay)}
    ELSE {[name |-> n, var_type |-> t, var_format |-> f] :
             n \in Names, t \in file.types, f \in file.formats}

handle_variable ==
    /\ pc = "variables"
    /\ \E decl \in Declarations :
        LET var_type   == decl.var_type
            var_name   == decl.name
            var_format == decl.var_format
            again  == replay # <<>>
            index  == IF again THEN Len(sent_vars) - Len(replay) ELSE Len(sent_vars)
            \* the declarations of this pass are over; the parser delivers
            \* them again, or goes on to the values
            sent   == IF again THEN sent_vars ELSE Append(sent_vars, decl)
            onward == IF index + 1 < file.vars THEN "variables"
                      ELSE IF ~again /\ file.passes > 1 THEN "metadata"
                      ELSE IF file.rows = 0 THEN "done" ELSE "values"
            meta   == [var_type |-> var_type,
                       var_type_class |-> TypeClassOf(var_type),
                       var_label |-> "",
                       var_format |-> var_format,
                       var_format_class |-> match_var_format(var_format)]
            merged == try_merge(schema, Field(var_name, var_dt(var_type)))
            ev     == [kind |-> "variable", index |-> index, name |-> var_name,
                       var_type |-> var_type]
        IN  /\ vars' = MapInsert(vars, ReadStatVarIndexAndName(index, var_name), meta)
            /\ IF merged = Err
               THEN \* .unwrap() panics
                    /\ pc' = "panicked"
                    /\ last' = ev @@ [ret |-> "PANIC"]
                    /\ UNCHANGED <<schema, cols, sent_vars, delivered, replay>>
               ELSE /\ schema' = merged.v
                    /\ cols' = Append(cols, NewBuilder(var_type))
                    /\ sent_vars' = sent
                    /\ delivered' = IF again THEN delivered ELSE Append(delivered, <<>>)
                    /\ replay' = IF again THEN Tail(replay)
                                 ELSE IF onward = "metadata" THEN sent ELSE <<>>
                    /\ pc' = onward
                    /\ last' = ev @@ [ret |-> "OK"]
    /\ variable_frame

(***************************************************************************)
(* handle_value                                                            *)
(***************************************************************************)
\* the value an arm stores: the FLOAT and DOUBLE arms normalise it (and
\* .unwrap() the parse), the other arms take it as delivered
Stored(value_type, v) ==
    IF value_type \in {"Float", "Double"} THEN Normalize(v) ELSE Ok(v)

\* the entry a builder receives: append_null() when is_missing, append_value()
\* otherwise.  A system-missing float or double is delivered as NaN, whose text
\* survives the round trip.
EntryFor(value_type, entry) ==
    IF entry = Null THEN Ok(Null)
    ELSE LET stored == Stored(value_type, entry.v)
         IN  IF stored = Err THEN Err ELSE Ok(Val(stored.v))

\* a value part that appends nothing for a missing value
append_unless_missing(cs, var_index, value_type, entry) ==
    IF entry = Null THEN Ok(cs)
    ELSE Ok([cs EXCEPT ![var_index + 1].items = Append(@, entry)])

\* `match value_type { ... }`: downcast the builder at var_index and append to
\* it; Err when the arm is unreachable!(), the parse fails, var_index is out
\* of bounds or the downcast yields None
append_value(cs, var_index, value_type, entry) ==
    LET item == EntryFor(value_type, entry)
    IN  IF \/ DowncastFor(value_type) = "None"
           \/ item = Err
           \/ var_index + 1 > Len(cs)
           \/ cs[var_index + 1].builder # DowncastFor(value_type)
        THEN Err
        ELSE Ok([cs EXCEPT ![var_index + 1].items = Append(@, item.v)])

\* ArrayBuilder::finish: the array built so far
finish(b) == [data_type |-> ArrayTypeOf(b.builder), items |-> b.items]

\* a finish that leaves the builder as it was
untouched(b) == b

\* ... and the builder it leaves behind, empty and of the same type
reset(b) == [b EXCEPT !.items = <<>>]

\* RecordBatch::try_new: one column per field, of the field's type, all of one length
try_new(sch, arrays) ==
    IF /\ Len(arrays) = Len(sch)
       /\ Len(arrays) > 0
       /\ \A i \in 1..Len(arrays) :
            /\ Len(arrays[i].items) = Len(arrays[1].items)
            /\ arrays[i].data_type = sch[i].data_type
    THEN Ok([schema |-> sch, columns |-> arrays])
    ELSE Err

\* the guard of the `Reader::stream` arm
stream_flush(obs_index) ==
    \/ ((obs_index + 1) % ROWS = 0) /\ (obs_index # 0)
    \/ obs_index = row_count - 1

\* the guard of the `Reader::mem` arm
mem_flush(obs_index) == obs_index = row_count - 1

\* the parser's cursor after the event (obs_index, var_index)
NextCursor(obs_index, var_index) ==
    IF var_index + 1 < file.vars
    THEN [obs |-> obs_index, var |-> var_index + 1]
    ELSE [obs |-> obs_index + 1, var |-> 0]

\* the value types the parser may deliver for a variable declared with
\* var_type: readstat_value_type(value)
ValueTypesOf(var_type) == IF file.mistyped THEN VarTypes ELSE {var_type}

\* a flush test made on the first variable of a row
first_variable(var_index) == var_index = 0

\* `if var_index == d.var_count - 1`
last_variable(var_index) == var_index = var_count - 1

\* a handler that turns a write error into the abort status
abort_on_error(write_result) == IF write_result = "Err" THEN "ABORT" ELSE "OK"

\* `match d.write() { Ok(()) => (), Err(_) => () }`: the status the handler
\* goes on to return
after_write(write_result) == "OK"

\* a handler that keeps in d.row_count the number of rows seen so far
counting_rows ==
    /\ row_count' = cursor.obs
    /\ UNCHANGED <<reader, var_count, table_name, file_label, file_encoding, version,
                   is64bit, creation_time, modified_time, compression, endianness,
                   vars, schema, file, sent_vars, replay>>

\* what handle_value never assigns
value_frame == UNCHANGED <<reader, metadata_vars, vars, schema, file, sent_vars, replay>>

handle_value ==
    /\ pc = "values"
    /\ LET obs_index  == cursor.obs
           var_index  == cursor.var
       IN \E value_type \in ValueTypesOf(sent_vars[var_index + 1].var_type) :
          \E entry \in {Null} \cup {Val(v) : v \in ValuesOf(value_type)},
             write_result \in {"Ok", "Err"} :
           LET appended == append_value(cols, var_index, value_type, entry)
               \* the event, and the buffers as the value part leaves them
               ev       == [kind |-> "value", obs_index |-> obs_index,
                            var_index |-> var_index, value_type |-> value_type,
                            entry |-> entry,
                            cols |-> IF appended = Err THEN cols ELSE appended.v]
               goon     == IF obs_index = file.rows - 1 /\ var_index = file.vars - 1
                           THEN "done" ELSE "values"
               \* the parser stops when a handler does not return OK
               status   == after_write(write_result)
               onward   == IF status = "OK" THEN goon ELSE "aborted"
           IN /\ delivered' = [delivered EXCEPT ![var_index + 1] = Append(@, entry)]
              /\ cursor' = NextCursor(obs_index, var_index)
              /\ IF appended = Err
                 THEN \* unreachable!() or .unwrap() panics
                      /\ pc' = "panicked"
                      /\ last' = ev @@
                                 [flush |-> FALSE, write |-> "none", ret |-> "PANIC"]
                      /\ UNCHANGED <<cols, batch, sunk, write_failed>>
                 ELSE IF last_variable(var_index) /\ reader = "stream"
                         /\ stream_flush(obs_index)
                 THEN LET arrays == [i \in 1..Len(appended.v) |-> finish(appended.v[i])]
                          built  == try_new(schema, arrays)
                      IN /\ cols' = [i \in 1..Len(appended.v) |-> reset(appended.v[i])]
                         /\ IF built = Err
                            THEN \* .unwrap() panics
                                 /\ pc' = "panicked"
                                 /\ last' = ev @@ [flush |-> TRUE, write |-> "none",
                                                   ret |-> "PANIC"]
                                 /\ UNCHANGED <<batch, sunk, write_failed>>
                            ELSE /\ batch' = built.v
                                 /\ sunk' = Append(sunk, built.v)
                                 /\ write_failed' = (write_failed \/ write_result = "Err")
                                 /\ pc' = onward
                                 /\ last' = ev @@ [flush |-> TRUE, write |-> write_result,
                                                   ret |-> status]
                 ELSE IF last_variable(var_index) /\ reader = "mem"
                         /\ mem_flush(obs_index)
                 THEN /\ cols' = appended.v
                      /\ sunk' = Append(sunk, batch)
                      /\ write_failed' = (write_failed \/ write_result = "Err")
                      /\ pc' = onward
                      /\ last' = ev @@ [flush |-> FALSE, write |-> write_result,
                                        ret |-> status]
                      /\ UNCHANGED batch
                 ELSE /\ cols' = appended.v
                      /\ pc' = goon
                      /\ last' = ev @@ [flush |-> FALSE, write |-> "none", ret |-> "OK"]
                      /\ UNCHANGED <<batch, sunk, write_failed>>
    /\ value_frame

Next == handle_metadata \/ handle_variable \/ handle_value

Spec == Init /\ [][Next]_vars_all

\* the declaration phase over every display format
SpecDecl == InitDecl /\ [][Next]_vars_all

\* chunked delivery of files of two variable types
SpecChunks == InitChunks /\ [][Next]_vars_all

\* files with and without their optional metadata strings
SpecMeta == InitMeta /\ [][Next]_vars_all

\* a parser that delivers values of a type other than the declared one
SpecTyped == InitTyped /\ [][Next]_vars_all

\* a source that reports an unknown number of rows
SpecUnknown == InitUnknown /\ [][Next]_vars_all

\* a parser that delivers the metadata and the declarations twice
SpecTwice == InitTwice /\ [][Next]_vars_all

(***************************************************************************)
(* Observations used by the properties.                                    *)
(***************************************************************************)
\* the declaration phase is over and no handler has panicked
DeclarationOver == pc \in {"values", "done"}

\* the parse has come to its end, by completion or by a panic
ParseEnded == pc \in {"done", "panicked"}

\* the entries of column c (1-based) of a batch, none when it has no such column
ColumnOf(b, c) == IF c \in 1..Len(b.columns) THEN b.columns[c].items ELSE <<>>

\* column c of the batches in bs, concatenated in emission order
RECURSIVE ConcatColumn(_, _)
ConcatColumn(bs, c) ==
    IF bs = <<>> THEN <<>> ELSE ColumnOf(Head(bs), c) \o ConcatColumn(Tail(bs), c)

\* batch b has var_count columns of n entries each
HasRows(b, n) ==
    /\ Len(b.columns) = var_count
    /\ \A c \in 1..Len(b.columns) : Len(b.columns[c].items) = n

\* the batch sizes streaming mode promises for n >= 1 rows
RECURSIVE ChunkSizes(_)
ChunkSizes(n) == IF n <= ROWS THEN <<n>> ELSE <<ROWS>> \o ChunkSizes(n - ROWS)

\* the last handled event completed a row
RowCompleted == last.kind = "value" /\ last.var_index = var_count - 1

\* the last handled event finished the columns and called the sink
Flushed == last.kind = "value" /\ last.flush /\ last.write # "none"

(***************************************************************************)
(* Properties.                                                             *)
(***************************************************************************)
\* C1: once every event of the file has been handled, in either reader mode,
\* the lengths of column c summed over the batches handed to the sink equal
\* the declared row_count, for every column c.
C1_ColumnTotals ==
    pc = "done" =>
        \A c \in 1..var_count : Len(ConcatColumn(sunk, c)) = row_count

\* C2: in streaming mode with row_count N >= 1 the sink has received, when
\* the parse has ended, exactly ceil(N / ROWS) batches with var_count columns
\* each: ROWS rows in every batch but the last, the remainder in the last,
\* and no empty batch.
C2_StreamBatches ==
    (reader = "stream" /\ ParseEnded /\ pc # "metadata" /\ file.rows >= 1
        /\ Len(sent_vars) = file.vars) =>
        /\ Len(sunk) = Len(ChunkSizes(file.rows))
        /\ \A i \in 1..Len(sunk) : i <= Len(ChunkSizes(file.rows))
                                   /\ HasRows(sunk[i], ChunkSizes(file.rows)[i])

\* C3: in streaming mode a row-completing value event of row obs_index
\* flushes (finishes the columns and calls the sink) exactly when
\* (obs_index + 1) mod ROWS = 0 or obs_index = row_count - 1.
C3_FlushIff ==
    (reader = "stream" /\ RowCompleted) =>
        (Flushed <=> \/ (last.obs_index + 1) % ROWS = 0
                     \/ last.obs_index = row_count - 1)

\* C4: in full-buffer mode with row_count N >= 1 the sink is invoked once,
\* on the value event (N - 1, var_count - 1) and on no earlier event, and the
\* batch it sees has N rows in every column.
C4_SingleFullBatch ==
    (reader = "mem" /\ file.rows >= 1) =>
        /\ Len(sunk) <= 1
        /\ (Len(sunk) = 1 <=> pc = "done")
        /\ \A i \in 1..Len(sunk) : HasRows(sunk[i], row_count)

\* C5: once every event has been handled, column c of the batches handed to
\* the sink, concatenated in emission order, holds at row r the value
\* delivered by value event (r, c), or a null when that event was flagged
\* missing.
C5_Concatenation ==
    pc = "done" =>
        \A c \in 1..var_count : ConcatColumn(sunk, c) = delivered[c]

\* C6: a value event for variable var_index whose value type is one of
\* string, string-ref, int8, int16, int32, float, double and matches the
\* declared type grows the column buffer at var_index by exactly one entry, a
\* null when flagged missing and the delivered value otherwise, and leaves
\* every other column buffer unchanged.  The buffers are read as the value
\* part of the handler leaves them, before any flush the event triggers.
C6_AppendOne ==
    [][(pc = "values" /\ sent_vars[cursor.var + 1].var_type # "Unknown") =>
         last'.cols = [cols EXCEPT ![cursor.var + 1].items = Append(@, last'.entry)]]_vars_all

\* C7: once the declaration phase is over the schema has exactly var_count
\* fields, also when two variables carry the same name.
C7_FieldCount == DeclarationOver => Len(schema) = var_count

\* C8: once the declaration phase is over, schema field i has the type the
\* fixed mapping gives for variable i's declared type: string, string-ref
\* and unknown are text, int8 and int16 are Int16, int32 is Int32, float is
\* Float32 and double is Float64, whatever the display-format class.
MappedType(var_type) ==
    CASE var_type \in {"String", "StringRef", "Unknown"} -> "Utf8"
      [] var_type \in {"Int8", "Int16"}                  -> "Int16"
      [] var_type = "Int32"                              -> "Int32"
      [] var_type = "Float"                              -> "Float32"
      [] var_type = "Double"                             -> "Float64"

C8_FieldTypes ==
    DeclarationOver =>
        \A i \in 1..var_count :
            /\ i <= Len(schema)
            /\ schema[i].data_type = MappedType(sent_vars[i].var_type)

\* C9: a double variable whose display format is classified Date has schema
\* type Date32, DateTime gives Timestamp(second), Time gives Time32(second)
\* and an unclassified double Float64; the column of a DateTime variable in a
\* batch is a second-resolution timestamp array.
TemporalType(class) ==
    CASE class = "Date"     -> "Date32"
      [] class = "DateTime" -> "Timestamp(Second)"
      [] class = "Time"     -> "Time32(Second)"
      [] OTHER              -> "Float64"

C9_TemporalTypes ==
    DeclarationOver =>
        \A i \in 1..Len(sent_vars) :
            (sent_vars[i].var_type = "Double" /\ i <= Len(schema)) =>
                LET class == vars[<<i - 1, sent_vars[i].name>>].var_format_class
                IN  /\ schema[i].data_type = TemporalType(class)
                    /\ \A k \in 1..Len(sunk) :
                         i <= Len(sunk[k].columns) =>
                             sunk[k].columns[i].data_type = TemporalType(class)

\* C10: the element type of the column buffer allocated for a variable is
\* the type of that variable's schema field, for every declared type, so
\* that a batch can be assembled from the finished buffers and the schema.
C10_BufferMatchesField ==
    \A i \in 1..Len(cols) :
        ArrayTypeOf(cols[i].builder) = MappedType(sent_vars[i].var_type)

\* the last handled event delivered a value of a type other than the one its
\* variable was declared with
Mistyped ==
    /\ last.kind = "value"
    /\ last.value_type # sent_vars[last.var_index + 1].var_type

\* C11: a value event, missing or not, whose type differs from the declared
\* type of the variable it addresses makes the value handler return ABORT
\* (not OK, no coercion, no drop), the event hands no batch to the sink and
\* neither does any event after it.
C11_MismatchAborts ==
    /\ [](Mistyped => (last.ret = "ABORT" /\ last.write = "none"))
    /\ [][Mistyped => sunk' = sunk]_vars_all

\* the schema has a field of that name whose type is not the mapped type of var_type
Conflicts(sch, name, var_type) ==
    \E i \in 1..Len(sch) : sch[i].name = name /\ sch[i].data_type # MappedType(var_type)

\* the schema has a field of that name and of the mapped type of var_type
Redeclares(sch, name, var_type) ==
    \E i \in 1..Len(sch) : sch[i].name = name /\ sch[i].data_type = MappedType(var_type)

\* C12: a declaration whose name is already in the schema with a different
\* mapped type makes the variable handler return ABORT, and the schema keeps
\* the fields it had before the event.
C12_ConflictAborts ==
    [][(pc = "variables" /\ Conflicts(schema, last'.name, last'.var_type)) =>
         (last'.ret = "ABORT" /\ schema' = schema)]_vars_all

\* C13: a declaration whose name is already in the schema with the same
\* mapped type changes neither the schema nor the column buffers: no buffer
\* is added and there are as many buffers as schema fields afterwards.
C13_RedeclarationNoOp ==
    [][(pc = "variables" /\ Redeclares(schema, last'.name, last'.var_type)) =>
         (schema' = schema /\ cols' = cols /\ Len(cols') = Len(schema'))]_vars_all

\* the rows all of whose value events have been handled and returned OK
RowsCompleted ==
    IF last.kind = "value" /\ last.ret # "OK" THEN last.obs_index ELSE cursor.obs

\* the batch sizes streaming mode owes once the first n rows are completed:
\* one batch of ROWS rows per chunk boundary passed and, when the last row
\* is among them, the remainder
BatchesDue(n) ==
    IF n = 0 THEN <<>>
    ELSE IF n = row_count THEN ChunkSizes(n)
    ELSE [i \in 1..(n \div ROWS) |-> ROWS]

\* C14: in streaming mode a flush whose sink write fails still returns OK
\* and leaves every column buffer empty and of its type, as a successful
\* flush does; and once a write has failed the sink has still been offered,
\* at every later point of the parse, exactly the batches the completed rows
\* owe: one of ROWS rows per chunk boundary, the remainder at the last row.
C14_WriteFailureAbsorbed ==
    /\ []((reader = "stream" /\ write_failed) =>
            /\ Len(sunk) = Len(BatchesDue(RowsCompleted))
            /\ \A i \in 1..Len(sunk) :
                 i <= Len(BatchesDue(RowsCompleted))
                 /\ HasRows(sunk[i], BatchesDue(RowsCompleted)[i]))
    /\ [][(reader = "stream" /\ pc = "values" /\ last'.write = "Err") =>
           (/\ last'.ret = "OK"
            /\ pc' \in {"values", "done"}
            /\ Len(sunk') = Len(sunk) + 1
            /\ cols' = [i \in 1..Len(cols) |-> [builder |-> cols[i].builder, items |-> <<>>]])
         ]_vars_all

\* a write failed on a non-final flush and the parse went on to flush again
\* and to complete
C14_Witness ==
    /\ reader = "stream" /\ write_failed /\ pc = "done"
    /\ Len(sunk) >= 2 /\ last.write = "Ok"

\* C15: for a file of row_count 0, in both reader modes, once the metadata
\* event and the declarations have been handled every handler call has
\* returned OK, the schema has var_count fields, every column buffer is
\* empty and the sink has not been invoked.
C15_EmptyFile ==
    (file.rows = 0 /\ ParseEnded) =>
        /\ last.ret = "OK"
        /\ Len(schema) = var_count
        /\ \A i \in 1..Len(cols) : cols[i].items = <<>>
        /\ sunk = <<>>

\* C16 as stated: after the declaration phase the registry has one entry
\* per declared variable, the lookup of (i, name_i) succeeds for every
\* declared variable i, and the lookup of (j, name_i) fails for every other
\* index j.
C16_OtherIndexFails ==
    DeclarationOver =>
        /\ Cardinality(DOMAIN vars) = var_count
        /\ \A i \in 1..var_count :
             /\ <<i - 1, sent_vars[i].name>> \in DOMAIN vars
             /\ \A j \in 1..var_count :
                  j # i => <<j - 1, sent_vars[i].name>> \notin DOMAIN vars

\* C16: after the declaration phase the registry has one entry per declared
\* variable, the lookup of (i, name_i) succeeds for every declared variable i
\* and yields that variable's metadata, and no other pair is found: a name
\* that two variables carry is found under both their indices.
C16_RegistryKeys ==
    DeclarationOver =>
        /\ Cardinality(DOMAIN vars) = var_count
        /\ \A i \in 1..var_count :
             /\ <<i - 1, sent_vars[i].name>> \in DOMAIN vars
             /\ vars[<<i - 1, sent_vars[i].name>>].var_type = sent_vars[i].var_type
             /\ vars[<<i - 1, sent_vars[i].name>>].var_format = sent_vars[i].var_format
        /\ \A k \in DOMAIN vars :
             k[1] \in 0..(var_count - 1) /\ k[2] = sent_vars[k[1] + 1].name

\* two variables of different names are declared and neither name is found
\* under the other's index
C16_Witness ==
    /\ DeclarationOver /\ var_count = 2
    /\ sent_vars[1].name # sent_vars[2].name
    /\ <<1, sent_vars[1].name>> \notin DOMAIN vars
    /\ <<0, sent_vars[1].name>> \in DOMAIN vars

\* C17: every variable declaration and every value event, flushing or not,
\* leaves row_count, var_count, table name, file label, encoding, version,
\* bitness, both timestamps, compression and endianness unchanged.
C17_MetadataFrame ==
    [][(pc = "variables" \/ pc = "values") =>
        (/\ row_count' = row_count /\ var_count' = var_count
         /\ table_name' = table_name /\ file_label' = file_label
         /\ file_encoding' = file_encoding /\ version' = version
         /\ is64bit' = is64bit /\ creation_time' = creation_time
         /\ modified_time' = modified_time /\ compression' = compression
         /\ endianness' = endianness)]_vars_all

\* a value event has flushed and the metadata are those of the file
C17_Witness ==
    /\ last.kind = "value" /\ last.flush /\ last.ret = "OK"
    /\ row_count = file.rows /\ row_count >= 1 /\ var_count = file.vars
    /\ table_name = "ALL_TYPES" /\ file_encoding = "UTF-8"
    /\ creation_time = "2022-01-08 19:40:48"

\* C18: the metadata handler returns OK and stores the empty string for a
\* table name, file label or file encoding the source does not supply, the
\* string as delivered otherwise, and row_count, var_count, version and
\* bitness as delivered.
C18_AbsentStrings ==
    last.kind = "metadata" =>
        /\ last.ret = "OK"
        /\ table_name = (IF file.table_name = NullPtr THEN "" ELSE file.table_name)
        /\ file_label = (IF file.file_label = NullPtr THEN "" ELSE file.file_label)
        /\ file_encoding = (IF file.file_encoding = NullPtr THEN "" ELSE file.file_encoding)
        /\ row_count = file.row_count /\ var_count = file.vars
        /\ version = file.version /\ is64bit = file.is64bit

\* the file supplies a table name but neither label nor encoding
C18_Witness ==
    /\ last.kind = "metadata"
    /\ file.table_name = "ALL_TYPES" /\ file.file_label = NullPtr
    /\ file.file_encoding = NullPtr
    /\ table_name = "ALL_TYPES" /\ file_label = "" /\ file_encoding = ""

\* C19: for every float or double value x a value event delivers,
\* normalising x yields a value and normalising that value again yields the
\* same value.
C19_Idempotent ==
    (last.kind = "value" /\ last.value_type \in {"Float", "Double"} /\ last.entry # Null) =>
        /\ Normalize(last.entry.v) # Err
        /\ Normalize(Normalize(last.entry.v).v) = Normalize(last.entry.v)

\* C20: a value event whose var_index is not var_count - 1 finishes no
\* column buffer and does not invoke the sink, in either mode and at every
\* row, chunk boundaries and the last row included: the buffers stay as the
\* value part left them, and the batch and the sink's input are unchanged.
C20_OnlyLastVariable ==
    [][(pc = "values" /\ cursor.var # var_count - 1) =>
        (/\ ~last'.flush /\ last'.write = "none"
         /\ cols' = last'.cols
         /\ sunk' = sunk /\ batch' = batch)]_vars_all

\* the first of two variables has been handled at a row that is both a
\* chunk boundary and the last row
C20_Witness ==
    /\ last.kind = "value" /\ last.ret = "OK"
    /\ var_count = 2 /\ last.var_index = 0
    /\ (last.obs_index + 1) % ROWS = 0 /\ last.obs_index = row_count - 1
    /\ Len(cols[1].items) = Len(cols[2].items) + 1

\* the entry a buffer of column c holds for a delivered entry
AsStored(c, entry) == EntryFor(sent_vars[c].var_type, entry).v

\* C21: in streaming mode a flush that is not the last one leaves every
\* column buffer empty and of the element type it had, one buffer per
\* variable; so batch k holds, in every column, the entries of the rows
\* (k - 1) * ROWS onwards that arrived since the flush before it, and no row
\* is in two batches.
C21_FreshBuffers ==
    /\ [][(reader = "stream" /\ pc = "values" /\ last'.flush /\ last'.ret = "OK"
            /\ last'.obs_index # row_count - 1) =>
           (/\ Len(cols') = var_count
            /\ \A i \in 1..Len(cols') :
                 cols'[i].items = <<>> /\ cols'[i].builder = cols[i].builder)
         ]_vars_all
    /\ [](reader = "stream" =>
            \A k \in 1..Len(sunk) : \A c \in 1..var_count :
                /\ Len(ColumnOf(sunk[k], c)) \in 1..ROWS
                /\ (k - 1) * ROWS + Len(ColumnOf(sunk[k], c)) <= Len(delivered[c])
                /\ \A j \in 1..Len(ColumnOf(sunk[k], c)) :
                     ColumnOf(sunk[k], c)[j] = AsStored(c, delivered[c][(k - 1) * ROWS + j]))

\* a flush after a non-final flush has produced a batch of the one row that
\* arrived in between
C21_Witness ==
    /\ reader = "stream" /\ pc = "done" /\ Len(sunk) = 2
    /\ Len(ColumnOf(sunk[1], 1)) = ROWS
    /\ Len(ColumnOf(sunk[2], 1)) = 1
    /\ \A i \in 1..Len(cols) : cols[i].items = <<>>

\* C22: when the metadata event declares a negative row_count, streaming
\* mode flushes at every row-completing event of a chunk boundary, and once
\* the last value event has been handled every delivered row is in a batch
\* handed to the sink and none is left in a column buffer.
C22_UnknownRowCount ==
    (reader = "stream" /\ row_count < 0) =>
        /\ (RowCompleted /\ last.ret = "OK" /\ (last.obs_index + 1) % ROWS = 0) => Flushed
        /\ pc = "done" =>
             \A c \in 1..var_count :
                 /\ Len(ConcatColumn(sunk, c)) = file.rows
                 /\ cols[c].items = <<>>

\* the value part of the last handled event ran to its end
ValuePartDone == last.kind = "value" /\ (last.ret = "OK" \/ last.flush)

\* C23: with values delivered in order and with their declared types, when
\* the value part of a row-completing event of row r has run, and before
\* any flush, there is one buffer per variable and each holds
\* (r mod ROWS) + 1 entries in streaming mode and r + 1 in full-buffer mode;
\* and the columns of every batch handed to the sink have one length.
C23_EqualLengths ==
    /\ (RowCompleted /\ ValuePartDone) =>
         /\ Len(last.cols) = var_count
         /\ \A i \in 1..Len(last.cols) :
              Len(last.cols[i].items) = IF reader = "stream"
                                        THEN (last.obs_index % ROWS) + 1
                                        ELSE last.obs_index + 1
    /\ \A k \in 1..Len(sunk) : \A i, j \in 1..Len(sunk[k].columns) :
         Len(sunk[k].columns[i].items) = Len(sunk[k].columns[j].items)

\* the second variable of the row after the first chunk has been handled in
\* streaming mode: both buffers hold that one row
C23_Witness ==
    /\ reader = "stream" /\ RowCompleted /\ ValuePartDone
    /\ var_count = 2 /\ last.obs_index = ROWS
    /\ Len(last.cols[1].items) = 1 /\ Len(last.cols[2].items) = 1
    /\ Len(sunk) >= 1

\* the parser has delivered the metadata and the declarations twice, and
\* nothing since
SecondPassOver == file.passes = 2 /\ last.kind = "variable" /\ DeclarationOver

\* no two declared variables carry the same name
DistinctNames ==
    \A i, j \in 1..Len(sent_vars) : i # j => sent_vars[i].name # sent_vars[j].name

\* C24: when the metadata and the var_count declarations, of pairwise
\* distinct names, are delivered a second time to the same session, the
\* session ends as after one pass: every handler returned OK, the schema has
\* var_count fields, those of the declarations in their order, the registry
\* has var_count entries and there are exactly var_count column buffers, all
\* empty.
C24_SecondPass ==
    (SecondPassOver /\ DistinctNames) =>
        /\ last.ret = "OK"
        /\ Len(schema) = var_count
        /\ \A i \in 1..Len(schema) :
             /\ schema[i].name = sent_vars[i].name
             /\ schema[i].data_type = MappedType(sent_vars[i].var_type)
        /\ Cardinality(DOMAIN vars) = var_count
        /\ Len(cols) = var_count
        /\ \A i \in 1..Len(cols) : cols[i].items = <<>>

\* two variables of different names have been declared twice
C24_Witness ==
    /\ SecondPassOver /\ DistinctNames /\ last.ret = "OK"
    /\ var_count = 2 /\ Len(sent_vars) = 2 /\ Len(cols) = 2 /\ Len(schema) = 2

====
